---- MODULE Spec2Model ----
(***************************************************************************)
(* A model of scripts/botsee.py, the BotSee command-line client.           *)
(*                                                                         *)
(* Six specifications share the variables below:                           *)
(*   - SpecAnalyze, cmd_analyze: start an analysis, then poll              *)
(*     GET /analysis/{uuid} with exponential backoff until completed /     *)
(*     failed / timeout;                                                   *)
(*   - SpecAnalyzeFair, the same loop under weak fairness of its steps,    *)
(*     with one status reply of each kind the loop tells apart;            *)
(*   - SpecSignup, cmd_signup: a signup split over several CLI invocations *)
(*     through the pending_signup.json file (signup_new, signup_resume),   *)
(*     ending in save_user_config;                                         *)
(*   - SpecCli, main: a sequence of invocations of any command, with the   *)
(*     requests each one issues, the files it writes and its exit code;    *)
(*   - SpecApiCall, api_call: the error data returned for an HTTP error    *)
(*     response;                                                           *)
(*   - SpecInterleaved: a use-site or account invocation next to another,  *)
(*     both working on the same user config file.                          *)
(*                                                                         *)
(* Time is counted in whole seconds.  The wall clock (time.time) is taken  *)
(* to be non-decreasing; a status request takes at least one tick, and two *)
(* consecutive reads of the clock may or may not return the same value.    *)
(***************************************************************************)
EXTENDS Integers, Sequences, FiniteSets, TLC

(***************************************************************************)
(* Program constants                                                       *)
(***************************************************************************)
ANALYSIS_POLL_TIMEOUT == 600
HTTP_OK == 200
HTTP_CREATED == 201
HTTP_ACCEPTED == 202
HTTP_NO_CONTENT == 204
TYPES_MIN == 1
TYPES_MAX == 3
PERSONAS_MIN == 1
PERSONAS_MAX == 3
QUESTIONS_MIN == 3
QUESTIONS_MAX == 10
InitialWait == 1
max_wait == 30

(***************************************************************************)
(* Bounds of the model                                                     *)
(***************************************************************************)
\* most status checks made for one pending signup
MaxChecks == 5
\* longest time a single status request takes, in seconds (at least 1)
MaxReqDur == 2
\* longest time time.sleep(s) sleeps beyond s, in seconds
MaxOversleep == 0
\* largest difference between start_time and the first reading of the clock
MaxClockStep == 1
\* most words in the body of an HTTP error response
MaxBodyLen == 2
\* most invocations of the client in one run of the command-line model
MaxInvocations == 2
\* longest list (customer types, personas of a type) the server returns
MaxListLen == 2

None == "None"

Min(a, b) == IF a < b THEN a ELSE b

\* Python truthiness of the values the model uses (None and "" are falsy)
Truthy(v) == v # None /\ v # ""

\* Python's `a or b`
Or(a, b) == IF Truthy(a) THEN a ELSE b

(***************************************************************************)
(* The two files of ~/.botsee.  A file that does not exist is a record     *)
(* with exists = FALSE and every field None.                               *)
(***************************************************************************)
NoConfig == [exists |-> FALSE, api_key |-> None, site_uuid |-> None,
             contact_email |-> None, company_name |-> None]

NoPending == [exists |-> FALSE, setup_token |-> None, setup_url |-> None,
              status_url |-> None]

\* a config written by an earlier signup and create-site
OldConfig == [exists |-> TRUE, api_key |-> "k0", site_uuid |-> "s0",
              contact_email |-> "e0", company_name |-> None]

\* a config file that holds the empty object {}
EmptyConfig == [exists |-> TRUE, api_key |-> None, site_uuid |-> None,
                contact_email |-> None, company_name |-> None]

ConfigMissing_FileOnly(cfg) == ~cfg.exists

\* load_user_config() followed by `if not config`: no file, or an empty one
ConfigMissing(cfg) == ~cfg.exists \/ cfg = EmptyConfig

\* .context/botsee-config.json
NoWorkspaceConfig == [exists |-> FALSE, types |-> 0, personas_per_type |-> 0,
                      questions_per_persona |-> 0]

\* the counts of a command line; 0 where the command takes none
NoArgs == [types |-> 0, personas |-> 0, questions |-> 0, count |-> 0]

(***************************************************************************)
(* The network.  A request either fails at connection level (URLError),    *)
(* or returns an HTTP status and a JSON body.                              *)
(***************************************************************************)
HttpCodes == {HTTP_OK, HTTP_ACCEPTED, 500}
AnalysisStatuses == {"pending", "completed", "failed", None}

\* what the server may answer to GET /analysis/{uuid}
StatusReplies ==
    [net : {"http"}, code : HttpCodes, status : AnalysisStatuses]
        \cup {[net |-> "url_error", code |-> 0, status |-> None]}

NoReply == [net |-> "none", code |-> 0, status |-> None]

\* what the server may answer to GET /signup/{token}/status
SignupStatuses == {"pending", "completed", "expired", "failed", None}
ApiKeys == {None, "", "k1", "k2"}

\* (the api_key and the account fields only come with a completed signup)
SignupReplies ==
    {r \in [net : {"http"}, code : HttpCodes, status : SignupStatuses,
            api_key : ApiKeys, contact_email : {None, "e1"},
            company_name : {None, "c1"}] :
        /\ (r.code # HTTP_OK \/ r.status # "completed") =>
              /\ r.contact_email = None
              /\ r.company_name = None
              /\ r.api_key = None}
        \cup {[net |-> "url_error", code |-> 0, status |-> None,
                api_key |-> None, contact_email |-> None,
                company_name |-> None]}

NoSignupReply == [net |-> "none", code |-> 0, status |-> None,
                  api_key |-> None, contact_email |-> None,
                  company_name |-> None]

\* what the server may answer to POST /signup
NewSignupReplies ==
    [net : {"http"}, code : {HTTP_OK, HTTP_CREATED, 500},
     setup_token : {None, "t1", "t2"}, setup_url : {None, "u1"},
     status_url : {None, "/signup/t/status"}]
        \cup {[net |-> "url_error", code |-> 0, setup_token |-> None,
                setup_url |-> None, status_url |-> None]}

VARIABLES
    pc,            \* position of the running invocation
    exit_code,     \* -1 while running, else the process exit code
    exit_reason,   \* which exit was taken
    user_config,   \* ~/.botsee/config.json (exists = FALSE: no such file)
    pending,       \* ~/.botsee/pending_signup.json (exists = FALSE: no file)
    now,           \* the wall clock, seconds
    start_time,    \* cmd_analyze: start_time
    elapsed,       \* cmd_analyze: elapsed, as last computed at the loop top
    wait_time,     \* cmd_analyze: wait_time
    resp,          \* reply to the last status request
    n_status,      \* number of GET /analysis/{uuid} requests issued
    n_sleeps,      \* number of time.sleep calls made by the poll loop
    n_fetch,       \* number of result requests issued after the loop
    pre_sleep,     \* argument of the sleep of the current iteration, 0 if none
    slept,         \* time the sleep of the current iteration really took
    req_at,        \* elapsed time at which the last status request was issued
    req_dur,       \* time the last status request took
    req_check,     \* elapsed as read by the timeout test of that iteration
    req_sleep,     \* argument of the sleep right before that request, 0 if none
    all_pending,   \* every status reply so far was 200 with status "pending"
    reqs,          \* signup: HTTP requests issued by the running invocation
    sresp,         \* signup: reply to the status check of this invocation
    checks,        \* signup: outcomes of the status checks of the pending signup
    prev_end,      \* how the previous invocation ended
    config_at_start, \* user_config as it was when the invocation started
    had_pending,   \* pending_signup.json existed when the invocation started
    reported,      \* the invocation printed a "... (HTTP <status>)" failure
    writes,        \* the files the invocation has written
    last_net,      \* how the latest HTTP request ended: "http" or "url_error"
    cmd,           \* main: args.command of the running invocation
    args,          \* main: the counts given on the command line
    n_inv,         \* number of invocations started through main
    ws_config,     \* .context/botsee-config.json
    http_status,   \* the handler's `status`: HTTP status of its latest api_call
    cs_site_uuid,  \* cmd_create_site: site_uuid
    cs_both_ok,    \* cmd_create_site: POST /sites and the types generation
                   \* both returned 200/201
    procs,         \* the invocations that run at the same time, by process
    ct_left,       \* cmd_create_site: customer types still to go through
    all_personas,  \* cmd_create_site: len(all_persona_uuids)
    p_left,        \* cmd_create_site: personas still to go through
    sent_key,      \* api_call: the api_key sent with the request
    error_body,    \* api_call: the body of the HTTP error response
    error_data     \* api_call: the error data returned to the caller

vars == <<pc, exit_code, exit_reason, user_config, pending, now, start_time,
          elapsed, wait_time, resp, n_status, n_sleeps, n_fetch, pre_sleep,
          slept, req_at, req_dur, req_check, req_sleep, all_pending, reqs,
          sresp, checks, prev_end, config_at_start, had_pending, reported, writes, last_net,
          cmd, args,
          n_inv, ws_config, http_status, cs_site_uuid, cs_both_ok, procs,
          ct_left, all_personas,
          p_left, sent_key, error_body, error_data>>

signupVars == <<reqs, sresp, checks, prev_end, config_at_start, had_pending>>
signupLocals == <<sresp, checks, prev_end, config_at_start, had_pending>>
fsVars == <<user_config, pending>>
invVars == <<reported, writes, last_net>>
cliVars == <<cmd, args, n_inv, ws_config, http_status, cs_site_uuid, cs_both_ok, ct_left,
             all_personas, p_left>>
apiVars == <<sent_key, error_body, error_data>>
pollVars == <<now, start_time, elapsed, wait_time, resp, n_status, n_sleeps,
              n_fetch, pre_sleep, slept, req_at, req_dur, req_check, req_sleep,
              all_pending>>

(***************************************************************************)
(* sys.exit(code)                                                          *)
(***************************************************************************)
Exit(code, reason) ==
    /\ pc' = "exited"
    /\ exit_code' = code
    /\ exit_reason' = reason

ConnectionFailed_Never(reply) == FALSE

\* api_call: a URLError prints "Connection error" and exits with code 1
ConnectionFailed(reply) == reply.net = "url_error"

\* the state of a process that has just been started
NewProcess ==
    /\ exit_code' = -1
    /\ exit_reason' = "none"
    /\ reqs' = <<>>
    /\ sresp' = NoSignupReply
    /\ config_at_start' = user_config
    /\ had_pending' = pending.exists
    /\ reported' = FALSE
    /\ writes' = {}
    /\ last_net' = "none"

\* no invocations run side by side
NoProcs == <<>>

\* the variables of the command dispatch and of api_call, before any command
InitLocals(c) ==
    /\ reported = FALSE
    /\ writes = {}
    /\ last_net = "none"
    /\ cmd = c
    /\ args = NoArgs
    /\ n_inv = 0
    /\ ws_config = NoWorkspaceConfig
    /\ http_status = 0
    /\ cs_site_uuid = None
    /\ cs_both_ok = FALSE
    /\ procs = NoProcs
    /\ ct_left = 0
    /\ all_personas = 0
    /\ p_left = 0

\* api_call before any HTTP error response
InitApi ==
    /\ sent_key = None
    /\ error_body = [json |-> FALSE, text |-> <<>>]
    /\ error_data = <<>>

(***************************************************************************)
(* cmd_analyze                                                             *)
(***************************************************************************)
\* variants of the code below, each a slip the properties must detect
TimedOut_Strict(e) == e > ANALYSIS_POLL_TIMEOUT

TimedOut_Late(e) == e >= ANALYSIS_POLL_TIMEOUT + max_wait

TimedOut_Never(e) == FALSE

ShouldSleep_Never(e) == FALSE

NextWait_NoCap(w) == w * 2

NextWait_Fixed(w) == w

PollOutcome_NoBreak(reply) ==
    IF reply.code # HTTP_OK THEN "continue"
    ELSE IF reply.status = "failed" THEN "failed"
    ELSE "continue"

PollOutcome_FailedIgnored(reply) ==
    IF reply.code # HTTP_OK THEN "continue"
    ELSE IF reply.status = "completed" THEN "break"
    ELSE "continue"

PollOutcome_AnyCode(reply) ==
    IF reply.status = "completed" THEN "break"
    ELSE IF reply.status = "failed" THEN "failed"
    ELSE "continue"

PollOutcome_UnknownFails(reply) ==
    IF reply.code # HTTP_OK THEN "continue"
    ELSE IF reply.status = "completed" THEN "break"
    ELSE IF reply.status = "pending" THEN "continue"
    ELSE "failed"

\* line 688: the timeout test at the top of the loop
TimedOut(e) == e >= ANALYSIS_POLL_TIMEOUT

\* line 693: sleep unless this is an iteration that reads elapsed = 0
ShouldSleep(e) == e > 0

\* line 696: exponential backoff
NextWait(w) == Min(w * 2, max_wait)

\* lines 699-709: what the loop does with a reply that api_call returned
\*   "continue": next iteration, "break": leave the loop, "failed": exit 1
PollOutcome(reply) ==
    IF reply.code # HTTP_OK THEN "continue"
    ELSE IF reply.status = "completed" THEN "break"
    ELSE IF reply.status = "failed" THEN "failed"
    ELSE "continue"

\* lines 652-684: load the config, start the analysis, initialise the loop
AnalyzeStart ==
    /\ pc = "analyze"
    /\ IF ConfigMissing(user_config)
       THEN /\ Exit(1, "no_config")
            /\ UNCHANGED pollVars
            /\ UNCHANGED <<reqs, reported, last_net>>
       ELSE \E net \in {"url_error", "http"}, code \in HttpCodes \cup {HTTP_CREATED},
               uuid \in {None, "a1"}, d \in 0..MaxClockStep :
            /\ reqs' = Append(reqs, "POST /analysis")
            /\ last_net' = net
            /\ reported' = (reported \/ (net = "http" /\
                              code \notin {HTTP_OK, HTTP_CREATED, HTTP_ACCEPTED}))
            /\ IF net = "url_error"
               THEN /\ Exit(1, "conn_error")
                    /\ UNCHANGED pollVars
               ELSE IF code \notin {HTTP_OK, HTTP_CREATED, HTTP_ACCEPTED}
               THEN /\ Exit(1, "http_error")
                    /\ UNCHANGED pollVars
               ELSE IF ~Truthy(uuid)
               THEN /\ Exit(1, "bad_response")
                    /\ UNCHANGED pollVars
               ELSE
                 /\ pc' = "poll_top"
                 /\ wait_time' = InitialWait
                 /\ start_time' = now
                 /\ now' = now + d
                 /\ UNCHANGED <<exit_code, exit_reason, elapsed, resp, n_status,
                                n_sleeps, n_fetch, pre_sleep, slept, req_at,
                                req_dur, req_check, req_sleep, all_pending>>
    /\ UNCHANGED fsVars
    /\ UNCHANGED signupLocals
    /\ UNCHANGED <<writes, cliVars, apiVars, procs>>

\* lines 687-693: read the clock, test the timeout, decide whether to sleep
PollTop ==
    /\ pc = "poll_top"
    /\ elapsed' = now - start_time
    /\ IF TimedOut(now - start_time)
       THEN /\ Exit(1, "timeout")
            /\ UNCHANGED <<pre_sleep, slept>>
       ELSE /\ pc' = IF ShouldSleep(now - start_time) THEN "poll_sleep"
                                                      ELSE "poll_request"
            /\ pre_sleep' = 0
            /\ slept' = 0
            /\ UNCHANGED <<exit_code, exit_reason>>
    /\ UNCHANGED <<now, start_time, wait_time, resp, n_status, n_sleeps,
                   n_fetch, req_at, req_dur, req_check, req_sleep, all_pending>>
    /\ UNCHANGED fsVars
    /\ UNCHANGED signupVars
    /\ UNCHANGED <<invVars, cliVars, apiVars, procs>>

\* lines 694-696: time.sleep(wait_time), then double the wait
PollSleep ==
    /\ pc = "poll_sleep"
    /\ \E over \in 0..MaxOversleep :
          /\ now' = now + wait_time + over
          /\ slept' = wait_time + over
    /\ pre_sleep' = wait_time
    /\ n_sleeps' = n_sleeps + 1
    /\ wait_time' = NextWait(wait_time)
    /\ pc' = "poll_request"
    /\ UNCHANGED <<exit_code, exit_reason, start_time, elapsed, resp, n_status,
                   n_fetch, req_at, req_dur, req_check, req_sleep, all_pending>>
    /\ UNCHANGED fsVars
    /\ UNCHANGED signupVars
    /\ UNCHANGED <<invVars, cliVars, apiVars, procs>>

\* lines 698-709: one status request and the branch on its reply, the reply
\* being one of `replies`
PollRequestFrom(replies) ==
    /\ pc = "poll_request"
    /\ \E reply \in replies, d \in 1..MaxReqDur :
          /\ resp' = reply
          /\ reqs' = Append(reqs, "GET /analysis/{uuid}")
          /\ last_net' = reply.net
          /\ n_status' = n_status + 1
          /\ req_at' = now - start_time
          /\ req_dur' = d
          /\ req_check' = elapsed
          /\ req_sleep' = pre_sleep
          /\ all_pending' = (all_pending /\ reply.net = "http"
                                /\ reply.code = HTTP_OK /\ reply.status = "pending")
          /\ now' = now + d
          /\ IF ConnectionFailed(reply)
             THEN Exit(1, "conn_error")
             ELSE CASE PollOutcome(reply) = "continue" ->
                         /\ pc' = "poll_top"
                         /\ UNCHANGED <<exit_code, exit_reason>>
                    [] PollOutcome(reply) = "break" ->
                         /\ pc' = "fetch"
                         /\ UNCHANGED <<exit_code, exit_reason>>
                    [] PollOutcome(reply) = "failed" ->
                         Exit(1, "failed")
    /\ UNCHANGED <<start_time, elapsed, wait_time, n_sleeps, n_fetch,
                   pre_sleep, slept>>
    /\ UNCHANGED fsVars
    /\ UNCHANGED signupLocals
    /\ UNCHANGED <<reported, writes, cliVars, apiVars, procs>>

PollRequest == PollRequestFrom(StatusReplies)

\* lines 712-767: fetch competitors, keywords, sources and usage, print them
\* (the status of these four requests is never looked at)
ResultRequests == <<"GET /analysis/{uuid}/competitors",
                    "GET /analysis/{uuid}/keywords",
                    "GET /analysis/{uuid}/sources", "GET /usage">>

FetchResults ==
    /\ pc = "fetch"
    /\ \E ok \in 0..4 :
          /\ n_fetch' = IF ok = 4 THEN 4 ELSE ok + 1
          /\ reqs' = reqs \o SubSeq(ResultRequests, 1, IF ok = 4 THEN 4 ELSE ok + 1)
          /\ last_net' = IF ok = 4 THEN "http" ELSE "url_error"
          /\ IF ok = 4 THEN Exit(0, "done") ELSE Exit(1, "conn_error")
    /\ UNCHANGED <<now, start_time, elapsed, wait_time, resp, n_status,
                   n_sleeps, pre_sleep, slept, req_at, req_dur, req_check,
                   req_sleep, all_pending>>
    /\ UNCHANGED fsVars
    /\ UNCHANGED signupLocals
    /\ UNCHANGED <<reported, writes, cliVars, apiVars, procs>>

InitAnalyze ==
    /\ pc = "analyze"
    /\ exit_code = -1
    /\ exit_reason = "none"
    /\ user_config \in {NoConfig, OldConfig}
    /\ pending = NoPending
    /\ now = 0
    /\ start_time = 0
    /\ elapsed = 0
    /\ wait_time = 0
    /\ resp = NoReply
    /\ n_status = 0
    /\ n_sleeps = 0
    /\ n_fetch = 0
    /\ pre_sleep = 0
    /\ slept = 0
    /\ req_at = 0
    /\ req_dur = 0
    /\ req_check = 0
    /\ req_sleep = 0
    /\ all_pending = TRUE
    /\ reqs = <<>>
    /\ sresp = NoSignupReply
    /\ checks = <<>>
    /\ prev_end = "none"
    /\ config_at_start = user_config
    /\ had_pending = pending.exists
    /\ InitLocals("analyze")
    /\ InitApi

NextAnalyze ==
    \/ AnalyzeStart
    \/ PollTop
    \/ PollSleep
    \/ PollRequest
    \/ FetchResults

SpecAnalyze == InitAnalyze /\ [][NextAnalyze]_vars

\* one reply of each kind the loop tells apart: the three that make it go
\* on (pending, a missing status, a non-200 status) and the three that end it
ReplyKinds ==
    {[net |-> "http", code |-> HTTP_OK, status |-> "pending"],
     [net |-> "http", code |-> HTTP_OK, status |-> None],
     [net |-> "http", code |-> 500, status |-> None],
     [net |-> "http", code |-> HTTP_OK, status |-> "completed"],
     [net |-> "http", code |-> HTTP_OK, status |-> "failed"],
     [net |-> "url_error", code |-> 0, status |-> None]}

PollRequestKinds == PollRequestFrom(ReplyKinds)

NextAnalyzeKinds ==
    \/ AnalyzeStart
    \/ PollTop
    \/ PollSleep
    \/ PollRequestKinds
    \/ FetchResults

\* the process is scheduled, every sleep ends and every request returns or
\* fails: a step that can be taken is taken
SpecAnalyzeFair ==
    InitAnalyze /\ [][NextAnalyzeKinds]_vars /\ WF_vars(NextAnalyzeKinds)

(***************************************************************************)
(* save_user_config (lines 188-216): a full rewrite of the file; the two   *)
(* contact fields fall back to the stored ones when the new value is falsy *)
(***************************************************************************)
SaveUserConfig_KeepKey(old, api_key, site_uuid, contact_email, company_name) ==
    [exists |-> TRUE,
     api_key |-> Or(old.api_key, api_key),
     site_uuid |-> site_uuid,
     contact_email |-> Or(contact_email, old.contact_email),
     company_name |-> Or(company_name, old.company_name)]

SaveUserConfig(old, api_key, site_uuid, contact_email, company_name) ==
    [exists |-> TRUE,
     api_key |-> api_key,
     site_uuid |-> site_uuid,
     contact_email |-> Or(contact_email, old.contact_email),
     company_name |-> Or(company_name, old.company_name)]

(***************************************************************************)
(* cmd_signup, signup_new, signup_resume                                   *)
(***************************************************************************)
ResumeOutcome_ExpiredIsPending(reply) ==
    IF reply.code # HTTP_OK THEN "incomplete"
    ELSE IF reply.status = "completed" /\ Truthy(reply.api_key) THEN "complete"
    ELSE "incomplete"

ResumeOutcome_KeylessCompletes(reply) ==
    IF reply.code # HTTP_OK THEN "incomplete"
    ELSE IF reply.status = "completed" THEN "complete"
    ELSE IF reply.status = "expired" THEN "expired"
    ELSE "incomplete"

\* lines 433-460: the branch signup_resume takes on the reply it got
\*   "complete": save the key, remove the pending file, return
\*   "expired": remove the pending file, exit 1
\*   "incomplete": print the setup URL, exit 1
ResumeOutcome(reply) ==
    IF reply.code # HTTP_OK THEN "incomplete"
    ELSE IF reply.status = "completed" /\ Truthy(reply.api_key) THEN "complete"
    ELSE IF reply.status = "expired" THEN "expired"
    ELSE "incomplete"

\* the entry of `checks` for a reply
CheckLabel(reply) ==
    IF reply.net = "url_error" THEN "other"
    ELSE IF reply.code # HTTP_OK
         THEN (IF reply.code >= 200 /\ reply.code <= 299 THEN "other" ELSE "non2xx")
    ELSE IF reply.status \in {"pending", "completed", "expired"} THEN reply.status
    ELSE "other"

SignupBranch_AlwaysNew(p) == "signup_new"

\* lines 512-516: resume the pending signup if there is one, else start one
SignupBranch(p) == IF p.exists THEN "signup_resume" ELSE "signup_new"

\* a new `signup` process: lines 510-516
CmdSignup ==
    /\ pc \in {"idle", "exited"}
    /\ pending.exists => Len(checks) < MaxChecks
    /\ pc' = SignupBranch(pending)
    /\ NewProcess
    /\ prev_end' = exit_reason
    /\ checks' = IF pending.exists THEN checks ELSE <<>>
    /\ UNCHANGED fsVars
    /\ UNCHANGED pollVars
    /\ UNCHANGED <<cliVars, apiVars, procs>>

\* lines 463-507: POST /signup, write pending_signup.json
SignupNew ==
    /\ pc = "signup_new"
    /\ reqs' = Append(reqs, "POST /signup")
    /\ \E reply \in NewSignupReplies :
          /\ last_net' = reply.net
          /\ IF ConnectionFailed(reply)
             THEN /\ Exit(1, "conn_error")
                  /\ UNCHANGED <<pending, reported, writes>>
             ELSE IF reply.code \notin {HTTP_OK, HTTP_CREATED}
             THEN /\ Exit(1, "http_error")
                  /\ reported' = TRUE
                  /\ UNCHANGED <<pending, writes>>
             ELSE IF ~Truthy(reply.setup_token) \/ ~Truthy(reply.setup_url)
             THEN /\ Exit(1, "bad_response")
                  /\ UNCHANGED <<pending, reported, writes>>
             ELSE /\ pending' = [exists |-> TRUE,
                                 setup_token |-> reply.setup_token,
                                 setup_url |-> reply.setup_url,
                                 status_url |-> reply.status_url]
                  /\ writes' = writes \cup {"pending_signup"}
                  /\ UNCHANGED reported
                  /\ Exit(0, "signup_started")
    /\ UNCHANGED <<user_config, sresp, checks, prev_end, config_at_start,
                   had_pending>>
    /\ UNCHANGED pollVars
    /\ UNCHANGED <<cliVars, apiVars, procs>>

\* lines 417-460: one status check of the pending signup
SignupResume ==
    /\ pc = "signup_resume"
    /\ reqs' = Append(reqs, "GET /signup/status")
    /\ \E reply \in SignupReplies :
          /\ sresp' = reply
          /\ checks' = Append(checks, CheckLabel(reply))
          /\ last_net' = reply.net
          /\ writes' = IF ~ConnectionFailed(reply) /\ ResumeOutcome(reply) = "complete"
                        THEN writes \cup {"user_config"} ELSE writes
          /\ IF ConnectionFailed(reply)
             THEN /\ Exit(1, "conn_error")
                  /\ UNCHANGED fsVars
             ELSE CASE ResumeOutcome(reply) = "complete" ->
                         /\ user_config' = SaveUserConfig(user_config, reply.api_key,
                                               None, reply.contact_email,
                                               reply.company_name)
                         /\ pending' = NoPending
                         /\ Exit(0, "signup_complete")
                    [] ResumeOutcome(reply) = "expired" ->
                         /\ pending' = NoPending
                         /\ UNCHANGED user_config
                         /\ Exit(1, "expired")
                    [] ResumeOutcome(reply) = "incomplete" ->
                         /\ UNCHANGED fsVars
                         /\ Exit(1, "incomplete")
    /\ UNCHANGED <<prev_end, config_at_start, had_pending, reported>>
    /\ UNCHANGED pollVars
    /\ UNCHANGED <<cliVars, apiVars, procs>>

InitSignup ==
    /\ pc = "idle"
    /\ exit_code = -1
    /\ exit_reason = "none"
    /\ user_config \in {NoConfig, OldConfig}
    /\ pending = NoPending
    /\ now = 0
    /\ start_time = 0
    /\ elapsed = 0
    /\ wait_time = 0
    /\ resp = NoReply
    /\ n_status = 0
    /\ n_sleeps = 0
    /\ n_fetch = 0
    /\ pre_sleep = 0
    /\ slept = 0
    /\ req_at = 0
    /\ req_dur = 0
    /\ req_check = 0
    /\ req_sleep = 0
    /\ all_pending = TRUE
    /\ reqs = <<>>
    /\ sresp = NoSignupReply
    /\ checks = <<>>
    /\ prev_end = "none"
    /\ config_at_start = user_config
    /\ had_pending = pending.exists
    /\ InitLocals("signup")
    /\ InitApi

NextSignup ==
    \/ CmdSignup
    \/ SignupNew
    \/ SignupResume

SpecSignup == InitSignup /\ [][NextSignup]_vars

(***************************************************************************)
(* main (lines 1195-1363) and the handlers of the other commands           *)
(***************************************************************************)
\* commands that issue one request and exit 1 unless its status is expected
GetCommands == {"list-sites", "get-site", "list-types", "get-type",
                "list-personas", "get-persona", "list-questions",
                "get-question", "results-competitors", "results-keywords",
                "results-sources", "results-responses"}
ArchiveCommands == {"archive-site", "archive-type", "archive-persona",
                    "delete-question"}
CreateCommands == {"create-type", "create-persona", "create-question"}
GenerateCommands == {"generate-types", "generate-personas",
                     "generate-questions"}
UpdateCommands == {"update-type", "update-persona", "update-question"}
SimpleCommands == GetCommands \cup ArchiveCommands \cup CreateCommands
                      \cup GenerateCommands \cup UpdateCommands

\* the keys of the `commands` dictionary of main
Commands == {"status", "account", "update", "signup", "create-site",
             "config-show", "analyze", "content", "use-site"}
                \cup SimpleCommands

\* the statuses a one-request command takes as success
ExpectedStatus(c) ==
    IF c \in GetCommands THEN {HTTP_OK}
    ELSE IF c \in ArchiveCommands THEN {HTTP_NO_CONTENT}
    ELSE IF c \in UpdateCommands THEN {HTTP_OK, HTTP_NO_CONTENT}
    ELSE {HTTP_OK, HTTP_CREATED}

\* what api_call gives back: an HTTP status, or a URLError
CliReplies ==
    [net : {"http"}, code : {HTTP_OK, HTTP_CREATED, HTTP_NO_CONTENT, 500}]
        \cup {[net |-> "url_error", code |-> 0]}

\* the counts tried on the command line: --types/--personas/--questions of
\* create-site (in range, and each one just out of range), --count of the
\* generate commands
ArgChoices(c) ==
    IF c = "create-site"
    THEN {[types |-> t, personas |-> p, questions |-> q, count |-> 0] :
             <<t, p, q>> \in {<<1, 1, 3>>, <<3, 3, 10>>, <<0, 1, 3>>,
                              <<4, 1, 3>>, <<1, 0, 3>>, <<1, 4, 3>>,
                              <<1, 1, 2>>, <<1, 1, 11>>}}
    ELSE IF c \in GenerateCommands
    THEN {[types |-> 0, personas |-> 0, questions |-> 0, count |-> n] :
             n \in {0, 3, 11}}
    ELSE {NoArgs}

\* the uuid given to use-site, or returned for the site create-site makes
SiteArgs == {"s1"}

\* where the handler of a command starts
Handler(c) ==
    IF c = "signup" THEN SignupBranch(pending)
    ELSE IF c \in SimpleCommands THEN "simple"
    ELSE c

\* one invocation of the client: a new process, dispatched on args.command.
\* An analyze is followed as a run of its own, from the initial state to its
\* exit: it leaves every file as it found it, so the invocations that come
\* after one are those of a run without it.
Main ==
    /\ pc \in {"idle", "exited"}
    /\ n_inv < MaxInvocations
    /\ cmd # "analyze"
    /\ n_inv' = n_inv + 1
    /\ NewProcess
    /\ \E c \in Commands :
          /\ c = "analyze" => n_inv = 0
          /\ cmd' = c
          /\ args' \in ArgChoices(c)
          /\ pc' = Handler(c)
          /\ checks' = IF c = "signup" /\ ~pending.exists THEN <<>> ELSE checks
    /\ now' = 0 /\ start_time' = 0 /\ elapsed' = 0 /\ wait_time' = 0
    /\ resp' = NoReply /\ n_status' = 0 /\ n_sleeps' = 0 /\ n_fetch' = 0
    /\ pre_sleep' = 0 /\ slept' = 0 /\ req_at' = 0 /\ req_dur' = 0
    /\ req_check' = 0 /\ req_sleep' = 0 /\ all_pending' = TRUE
    /\ http_status' = 0 /\ cs_site_uuid' = None /\ cs_both_ok' = FALSE
    /\ ct_left' = 0 /\ all_personas' = 0 /\ p_left' = 0
    /\ UNCHANGED <<fsVars, ws_config, prev_end, apiVars, procs>>

\* what every handler below leaves alone
HandlerFrame ==
    /\ UNCHANGED <<pending, pollVars, signupLocals, apiVars>>
    /\ UNCHANGED <<cmd, args, n_inv, procs>>

\* a handler that stops before its first request
ExitEarly(code, reason) ==
    /\ Exit(code, reason)
    /\ UNCHANGED <<reqs, last_net, http_status, reported, writes>>

\* api_call raised URLError on the request `labels` ends with
ExitConnection(labels) ==
    /\ reqs' = reqs \o labels
    /\ last_net' = "url_error"
    /\ Exit(1, "conn_error")
    /\ UNCHANGED <<http_status, reported, writes>>

\* the request `labels` ends with returned `code`, the handler reports
\* "... (HTTP <code>)" and exits 1
ExitHttp(labels, code) ==
    /\ reqs' = reqs \o labels
    /\ last_net' = "http"
    /\ http_status' = code
    /\ reported' = TRUE
    /\ Exit(1, "http_error")
    /\ UNCHANGED writes

\* the request `labels` ends with returned `code` and the handler goes on
Returned(labels, code) ==
    /\ reqs' = reqs \o labels
    /\ last_net' = "http"
    /\ http_status' = code

\* cmd_status (lines 282-326); the status of GET /sites/{uuid} only decides
\* what is printed
CmdStatus ==
    /\ pc = "status"
    /\ IF ConfigMissing(user_config)
       THEN ExitEarly(0, "get_started")
       ELSE \E r1 \in CliReplies, r2 \in CliReplies :
            IF ConnectionFailed(r1) THEN ExitConnection(<<"GET /usage">>)
            ELSE IF r1.code # HTTP_OK THEN ExitHttp(<<"GET /usage">>, r1.code)
            ELSE IF ~Truthy(user_config.site_uuid)
            THEN /\ Returned(<<"GET /usage">>, r1.code)
                 /\ Exit(0, "done")
                 /\ UNCHANGED <<reported, writes>>
            ELSE IF ConnectionFailed(r2)
            THEN ExitConnection(<<"GET /usage", "GET /sites/{uuid}">>)
            ELSE /\ Returned(<<"GET /usage", "GET /sites/{uuid}">>, r1.code)
                 /\ Exit(0, "done")
                 /\ UNCHANGED <<reported, writes>>
    /\ UNCHANGED <<user_config, ws_config, cs_site_uuid, cs_both_ok, ct_left, all_personas,
                   p_left>>
    /\ HandlerFrame

\* cmd_account (lines 329-360)
CmdAccount ==
    /\ pc = "account"
    /\ IF ConfigMissing(user_config)
       THEN /\ ExitEarly(1, "no_config")
            /\ UNCHANGED user_config
       ELSE \E r \in CliReplies, email \in {None, "e1"}, company \in {None, "c1"} :
            IF ConnectionFailed(r)
            THEN /\ ExitConnection(<<"GET /account">>)
                 /\ UNCHANGED user_config
            ELSE IF r.code # HTTP_OK
            THEN /\ ExitHttp(<<"GET /account">>, r.code)
                 /\ UNCHANGED user_config
            ELSE /\ Returned(<<"GET /account">>, r.code)
                 /\ IF Truthy(email) \/ Truthy(company)
                    THEN /\ user_config' = SaveUserConfig(user_config,
                                               user_config.api_key,
                                               user_config.site_uuid,
                                               email, company)
                         /\ writes' = writes \cup {"user_config"}
                    ELSE UNCHANGED <<user_config, writes>>
                 /\ Exit(0, "done")
                 /\ UNCHANGED reported
    /\ UNCHANGED <<ws_config, cs_site_uuid, cs_both_ok, ct_left, all_personas, p_left>>
    /\ HandlerFrame

\* cmd_update (lines 363-414) with download_github_release and
\* install_update (lines 95-177)
CmdUpdate ==
    /\ pc = "update"
    /\ IF ConfigMissing(user_config)
       THEN ExitEarly(1, "no_config")
       ELSE \E r \in CliReplies, update_available \in {None, "2.0.2", "next"},
               download \in {"ok", "http_error", "url_error", "bad_archive"} :
            IF ConnectionFailed(r) THEN ExitConnection(<<"GET /sites">>)
            ELSE IF r.code # HTTP_OK THEN ExitHttp(<<"GET /sites">>, r.code)
            ELSE IF ~Truthy(update_available)
            THEN /\ Returned(<<"GET /sites">>, r.code)
                 /\ Exit(0, "up_to_date")
                 /\ UNCHANGED <<reported, writes>>
            ELSE IF update_available = "next"
            THEN /\ Returned(<<"GET /sites">>, r.code)
                 /\ Exit(1, "update_failed")
                 /\ UNCHANGED <<reported, writes>>
            ELSE IF download = "url_error"
            THEN ExitConnection(<<"GET /sites", "GET release archive">>)
            ELSE IF download = "http_error"
            THEN ExitHttp(<<"GET /sites", "GET release archive">>, 404)
            ELSE /\ Returned(<<"GET /sites", "GET release archive">>, r.code)
                 /\ UNCHANGED reported
                 /\ IF download = "bad_archive"
                    THEN /\ Exit(1, "update_failed")
                         /\ UNCHANGED writes
                    ELSE /\ Exit(0, "updated")
                         /\ writes' = writes \cup {"skill"}
    /\ UNCHANGED <<user_config, ws_config, cs_site_uuid, cs_both_ok, ct_left, all_personas,
                   p_left>>
    /\ HandlerFrame

\* cmd_config_show (lines 633-647)
CmdConfigShow ==
    /\ pc = "config-show"
    /\ ExitEarly(0, IF ws_config.exists THEN "shown" ELSE "no_workspace_config")
    /\ UNCHANGED <<user_config, ws_config, cs_site_uuid, cs_both_ok, ct_left, all_personas,
                   p_left>>
    /\ HandlerFrame

\* cmd_content (lines 770-812)
CmdContent ==
    /\ pc = "content"
    /\ IF ConfigMissing(user_config)
       THEN ExitEarly(1, "no_config")
       ELSE \E r1 \in CliReplies, r2 \in CliReplies, analyses \in 0..1 :
            IF ConnectionFailed(r1)
            THEN ExitConnection(<<"GET /sites/{uuid}/analysis">>)
            ELSE IF r1.code # HTTP_OK
            THEN ExitHttp(<<"GET /sites/{uuid}/analysis">>, r1.code)
            ELSE IF analyses = 0
            THEN /\ Returned(<<"GET /sites/{uuid}/analysis">>, r1.code)
                 /\ Exit(1, "no_analysis")
                 /\ UNCHANGED <<reported, writes>>
            ELSE IF ConnectionFailed(r2)
            THEN ExitConnection(<<"GET /sites/{uuid}/analysis",
                                  "POST /analysis/{uuid}/content">>)
            ELSE IF r2.code \notin {HTTP_OK, HTTP_CREATED}
            THEN ExitHttp(<<"GET /sites/{uuid}/analysis",
                            "POST /analysis/{uuid}/content">>, r2.code)
            ELSE /\ Returned(<<"GET /sites/{uuid}/analysis",
                               "POST /analysis/{uuid}/content">>, r2.code)
                 /\ writes' = writes \cup {"post"}
                 /\ Exit(0, "done")
                 /\ UNCHANGED reported
    /\ UNCHANGED <<user_config, ws_config, cs_site_uuid, cs_both_ok, ct_left, all_personas,
                   p_left>>
    /\ HandlerFrame

UseSiteFound_Any(code) == TRUE

\* line 877: the test cmd_use_site makes on the status of GET /sites/{uuid}
UseSiteFound(code) == code = HTTP_OK

\* cmd_use_site (lines 869-890)
CmdUseSite ==
    /\ pc = "use-site"
    /\ IF ConfigMissing(user_config)
       THEN /\ ExitEarly(1, "no_config")
            /\ UNCHANGED user_config
       ELSE \E r \in CliReplies, uuid \in SiteArgs :
            IF ConnectionFailed(r)
            THEN /\ ExitConnection(<<"GET /sites/{uuid}">>)
                 /\ UNCHANGED user_config
            ELSE IF ~UseSiteFound(r.code)
            THEN /\ ExitHttp(<<"GET /sites/{uuid}">>, r.code)
                 /\ UNCHANGED user_config
            ELSE /\ Returned(<<"GET /sites/{uuid}">>, r.code)
                 /\ user_config' = SaveUserConfig(user_config,
                                       user_config.api_key, uuid, None, None)
                 /\ writes' = writes \cup {"user_config"}
                 /\ Exit(0, "done")
                 /\ UNCHANGED reported
    /\ UNCHANGED <<ws_config, cs_site_uuid, cs_both_ok, ct_left, all_personas, p_left>>
    /\ HandlerFrame

\* the one-request commands (lines 815-1190, api_get and api_delete at lines
\* 258-276): require the config, issue the request, test its status
CmdSimple ==
    /\ pc = "simple"
    /\ IF ConfigMissing(user_config)
       THEN ExitEarly(1, "no_config")
       ELSE \E r \in CliReplies :
            IF ConnectionFailed(r) THEN ExitConnection(<<cmd>>)
            ELSE IF r.code \notin ExpectedStatus(cmd)
            THEN ExitHttp(<<cmd>>, r.code)
            ELSE /\ Returned(<<cmd>>, r.code)
                 /\ Exit(0, "done")
                 /\ UNCHANGED <<reported, writes>>
    /\ UNCHANGED <<user_config, ws_config, cs_site_uuid, cs_both_ok, ct_left, all_personas,
                   p_left>>
    /\ HandlerFrame

ValidCounts_Loose(a) ==
    /\ TYPES_MIN - 1 <= a.types /\ a.types <= TYPES_MAX + 1
    /\ PERSONAS_MIN - 1 <= a.personas /\ a.personas <= PERSONAS_MAX + 1
    /\ QUESTIONS_MIN - 1 <= a.questions /\ a.questions <= QUESTIONS_MAX + 1

\* lines 531-539: the range checks of cmd_create_site
ValidCounts(a) ==
    /\ TYPES_MIN <= a.types /\ a.types <= TYPES_MAX
    /\ PERSONAS_MIN <= a.personas /\ a.personas <= PERSONAS_MAX
    /\ QUESTIONS_MIN <= a.questions /\ a.questions <= QUESTIONS_MAX

CreatedOk_Always(code) == TRUE

\* lines 550, 562, 582, 602: `status not in (HTTP_OK, HTTP_CREATED)` negated
CreatedOk(code) == code \in {HTTP_OK, HTTP_CREATED}

\* cmd_create_site, lines 519-570: require the config, validate the counts,
\* create the site, generate the customer types
CreateSiteStart ==
    /\ pc = "create-site"
    /\ IF ConfigMissing(user_config)
       THEN /\ ExitEarly(1, "no_config")
            /\ UNCHANGED <<cs_site_uuid, cs_both_ok, ct_left>>
       ELSE IF ~ValidCounts(args)
       THEN /\ ExitEarly(1, "bad_range")
            /\ UNCHANGED <<cs_site_uuid, cs_both_ok, ct_left>>
       ELSE \E r1 \in CliReplies, r2 \in CliReplies, uuid \in SiteArgs,
               ct_list \in 0..MaxListLen :
            IF ConnectionFailed(r1)
            THEN /\ ExitConnection(<<"POST /sites">>)
                 /\ UNCHANGED <<cs_site_uuid, cs_both_ok, ct_left>>
            ELSE IF ~CreatedOk(r1.code)
            THEN /\ ExitHttp(<<"POST /sites">>, r1.code)
                 /\ UNCHANGED <<cs_site_uuid, cs_both_ok, ct_left>>
            ELSE IF ConnectionFailed(r2)
            THEN /\ ExitConnection(<<"POST /sites", "POST customer-types/generate">>)
                 /\ cs_site_uuid' = uuid
                 /\ UNCHANGED cs_both_ok
                 /\ UNCHANGED ct_left
            ELSE IF ~CreatedOk(r2.code)
            THEN /\ ExitHttp(<<"POST /sites", "POST customer-types/generate">>,
                             r2.code)
                 /\ cs_site_uuid' = uuid
                 /\ UNCHANGED cs_both_ok
                 /\ UNCHANGED ct_left
            ELSE /\ Returned(<<"POST /sites", "POST customer-types/generate">>,
                             r2.code)
                 /\ cs_site_uuid' = uuid
                 /\ cs_both_ok' = (/\ r1.code \in {200, 201}
                                   /\ r2.code \in {200, 201})
                 /\ ct_left' = ct_list
                 /\ pc' = "cs_personas"
                 /\ UNCHANGED <<exit_code, exit_reason, reported, writes>>
    /\ UNCHANGED <<user_config, ws_config, all_personas, p_left>>
    /\ HandlerFrame

\* lines 572-591: one turn of the loop over the customer types.  A failed
\* generation is reported on stderr and the loop goes on.
CreateSitePersonas ==
    /\ pc = "cs_personas"
    /\ IF ct_left = 0
       THEN /\ pc' = "cs_questions"
            /\ p_left' = all_personas
            /\ UNCHANGED <<exit_code, exit_reason, reqs, last_net, http_status,
                           reported, writes, ct_left, all_personas>>
       ELSE \E r \in CliReplies, p_list \in 0..MaxListLen :
            IF ConnectionFailed(r)
            THEN /\ ExitConnection(<<"POST personas/generate">>)
                 /\ UNCHANGED <<ct_left, all_personas, p_left>>
            ELSE /\ Returned(<<"POST personas/generate">>, r.code)
                 /\ ct_left' = ct_left - 1
                 /\ IF ~CreatedOk(r.code)
                    THEN /\ reported' = TRUE
                         /\ UNCHANGED all_personas
                    ELSE /\ all_personas' = all_personas + p_list
                         /\ UNCHANGED reported
                 /\ UNCHANGED <<pc, exit_code, exit_reason, writes, p_left>>
    /\ UNCHANGED <<user_config, ws_config, cs_site_uuid, cs_both_ok>>
    /\ HandlerFrame

\* lines 593-605: one turn of the loop over the personas.  A failed
\* generation is skipped without a message.
CreateSiteQuestions ==
    /\ pc = "cs_questions"
    /\ IF p_left = 0
       THEN /\ pc' = "cs_save"
            /\ UNCHANGED <<exit_code, exit_reason, reqs, last_net, http_status,
                           p_left>>
       ELSE \E r \in CliReplies :
            IF ConnectionFailed(r)
            THEN /\ reqs' = Append(reqs, "POST questions/generate")
                 /\ last_net' = "url_error"
                 /\ Exit(1, "conn_error")
                 /\ UNCHANGED <<http_status, p_left>>
            ELSE /\ Returned(<<"POST questions/generate">>, r.code)
                 /\ p_left' = p_left - 1
                 /\ UNCHANGED <<pc, exit_code, exit_reason>>
    /\ UNCHANGED <<user_config, ws_config, cs_site_uuid, cs_both_ok, ct_left, all_personas,
                   reported, writes>>
    /\ HandlerFrame

\* lines 607-609: save_user_config(api_key, site_uuid), save_workspace_config
CreateSiteSave ==
    /\ pc = "cs_save"
    /\ user_config' = SaveUserConfig(user_config, user_config.api_key,
                                     cs_site_uuid, None, None)
    /\ ws_config' = [exists |-> TRUE, types |-> args.types,
                     personas_per_type |-> args.personas,
                     questions_per_persona |-> args.questions]
    /\ writes' = writes \cup {"user_config", "workspace_config"}
    /\ pc' = "cs_usage"
    /\ UNCHANGED <<exit_code, exit_reason, reqs, last_net, http_status,
                   reported, cs_site_uuid, cs_both_ok, ct_left, all_personas, p_left>>
    /\ HandlerFrame

\* lines 611-630: GET /usage (its status is not looked at), the summary
CreateSiteUsage ==
    /\ pc = "cs_usage"
    /\ \E r \in CliReplies :
          IF ConnectionFailed(r) THEN ExitConnection(<<"GET /usage">>)
          ELSE /\ Returned(<<"GET /usage">>, r.code)
               /\ Exit(0, "done")
               /\ UNCHANGED <<reported, writes>>
    /\ UNCHANGED <<user_config, ws_config, cs_site_uuid, cs_both_ok, ct_left, all_personas,
                   p_left>>
    /\ HandlerFrame

\* a signup that waits to be completed
SomePending == [exists |-> TRUE, setup_token |-> "t1", setup_url |-> "u1",
                status_url |-> None]

InitCli ==
    /\ pc = "idle"
    /\ exit_code = -1
    /\ exit_reason = "none"
    /\ \/ user_config \in {NoConfig, EmptyConfig, OldConfig} /\ pending = NoPending
       \/ user_config = NoConfig /\ pending = SomePending
    /\ now = 0
    /\ start_time = 0
    /\ elapsed = 0
    /\ wait_time = 0
    /\ resp = NoReply
    /\ n_status = 0
    /\ n_sleeps = 0
    /\ n_fetch = 0
    /\ pre_sleep = 0
    /\ slept = 0
    /\ req_at = 0
    /\ req_dur = 0
    /\ req_check = 0
    /\ req_sleep = 0
    /\ all_pending = TRUE
    /\ reqs = <<>>
    /\ sresp = NoSignupReply
    /\ checks = <<>>
    /\ prev_end = "none"
    /\ config_at_start = user_config
    /\ had_pending = pending.exists
    /\ InitLocals("none")
    /\ InitApi

NextCli ==
    \/ Main
    \/ CmdStatus
    \/ CmdAccount
    \/ CmdUpdate
    \/ SignupNew
    \/ SignupResume
    \/ CreateSiteStart
    \/ CreateSitePersonas
    \/ CreateSiteQuestions
    \/ CreateSiteSave
    \/ CreateSiteUsage
    \/ CmdConfigShow
    \/ AnalyzeStart
    \/ PollTop
    \/ PollSleep
    \/ PollRequest
    \/ FetchResults
    \/ CmdContent
    \/ CmdUseSite
    \/ CmdSimple

SpecCli == InitCli /\ [][NextCli]_vars

(***************************************************************************)
(* api_call on an HTTP error response (lines 74-83).  A body is a list of  *)
(* words, the keys and the values of its JSON object when it parses.       *)
(***************************************************************************)
\* the API keys a request may carry
SentKeys == {"k0", "k1"}

\* the words of a body: field names, message words and key values
Words == {"error", "invalid", "api_key", "API_KEY", "k0", "k1"}

BodyTexts == UNION {[1..n -> Words] : n \in 0..MaxBodyLen}

ErrorBodies == [json : BOOLEAN, text : BodyTexts]

\* str.lower on a word
Lower(w) == IF w = "API_KEY" THEN "api_key" ELSE w

\* line 79: "api_key" in str(error_data).lower()
MentionsApiKey(text) == \E i \in 1..Len(text) : Lower(text[i]) = "api_key"

\* lines 75-83: the error data handed to the caller
ErrorData(body) ==
    IF ~body.json THEN <<"error", "Request failed">>
    ELSE IF MentionsApiKey(body.text) THEN <<"error", "Authentication failed">>
    ELSE body.text

\* one request answered by an HTTP error
ApiCallHttpError ==
    /\ pc = "api_call"
    /\ error_data' = ErrorData(error_body)
    /\ \E code \in {401, 500} : http_status' = code
    /\ last_net' = "http"
    /\ pc' = "returned"
    /\ UNCHANGED <<exit_code, exit_reason, fsVars, pollVars, signupVars,
                   reported, writes, cmd, args, n_inv, ws_config, cs_site_uuid, cs_both_ok,
                   ct_left, all_personas, p_left, sent_key, error_body, procs>>

InitApiCall ==
    /\ pc = "api_call"
    /\ exit_code = -1
    /\ exit_reason = "none"
    /\ user_config = OldConfig
    /\ pending = NoPending
    /\ now = 0
    /\ start_time = 0
    /\ elapsed = 0
    /\ wait_time = 0
    /\ resp = NoReply
    /\ n_status = 0
    /\ n_sleeps = 0
    /\ n_fetch = 0
    /\ pre_sleep = 0
    /\ slept = 0
    /\ req_at = 0
    /\ req_dur = 0
    /\ req_check = 0
    /\ req_sleep = 0
    /\ all_pending = TRUE
    /\ reqs = <<>>
    /\ sresp = NoSignupReply
    /\ checks = <<>>
    /\ prev_end = "none"
    /\ config_at_start = user_config
    /\ had_pending = pending.exists
    /\ InitLocals("none")
    /\ sent_key \in SentKeys
    /\ error_body \in ErrorBodies
    /\ error_data = <<>>

NextApiCall == ApiCallHttpError

SpecApiCall == InitApiCall /\ [][NextApiCall]_vars

(***************************************************************************)
(* Two invocations at the same time: use-site and account                  *)
(*                                                                         *)
(* Each invocation is a process of its own with its own locals; the only   *)
(* thing they share is the user config file.  The code takes no lock.      *)
(* A step is one statement that touches the file or the network: the read  *)
(* in require_user_config, the request, the read of the existing file in   *)
(* save_user_config, and its write.                                        *)
(***************************************************************************)
Procs == {"p1", "p2"}

WriterCommands == {"use-site", "account"}

\* what GET /sites/{uuid} and GET /account answer: the account fields only
\* come with a 200 from GET /account
NoProcReply == [net |-> "none", code |-> 0, owner_email |-> None,
                company_name |-> None]

ProcReplies(c) ==
    {r \in [net : {"http"}, code : {HTTP_OK, 500},
            owner_email : {None, "e1"}, company_name : {None, "c1"}] :
        (c # "account" \/ r.code # HTTP_OK) =>
            (r.owner_email = None /\ r.company_name = None)}
    \cup {[net |-> "url_error", code |-> 0, owner_email |-> None,
           company_name |-> None]}

\* an invocation of command c with argument uuid, before its first statement
NewProc(c, uuid) ==
    [cmd |-> c, uuid |-> uuid, pc |-> "start", config |-> NoConfig,
     reply |-> NoProcReply, existing |-> NoConfig, exit_code |-> -1]

ProcExit(q, code) == [q EXCEPT !.pc = "done", !.exit_code = code]

\* everything but the file and the two processes
InterleavedFrame ==
    UNCHANGED <<pc, exit_code, exit_reason, pending, pollVars, signupVars,
                invVars, cmd, args, n_inv, ws_config, http_status,
                cs_site_uuid, cs_both_ok, ct_left, all_personas, p_left,
                apiVars>>

\* lines 331 and 871: config = require_user_config()
ProcLoad(p) ==
    /\ procs[p].pc = "start"
    /\ procs' = [procs EXCEPT ![p] =
                    IF ConfigMissing(user_config) THEN ProcExit(@, 1)
                    ELSE [@ EXCEPT !.pc = "request", !.config = user_config]]
    /\ UNCHANGED user_config
    /\ InterleavedFrame

\* cmd_account saves only when the reply has an email or a company (l. 344)
ProcSaves(q, reply) ==
    IF q.cmd = "use-site" THEN UseSiteFound(reply.code)
    ELSE /\ reply.code = HTTP_OK
         /\ (Truthy(reply.owner_email) \/ Truthy(reply.company_name))

\* lines 333-336 and 876-879: the request and the test of its status
ProcRequest(p) ==
    /\ procs[p].pc = "request"
    /\ \E reply \in ProcReplies(procs[p].cmd) :
          procs' = [procs EXCEPT ![p] =
                       IF ConnectionFailed(reply)
                       THEN ProcExit([@ EXCEPT !.reply = reply], 1)
                       ELSE IF procs[p].cmd = "use-site" /\ ~UseSiteFound(reply.code)
                       THEN ProcExit([@ EXCEPT !.reply = reply], 1)
                       ELSE IF procs[p].cmd = "account" /\ reply.code # HTTP_OK
                       THEN ProcExit([@ EXCEPT !.reply = reply], 1)
                       ELSE IF ProcSaves(procs[p], reply)
                       THEN [@ EXCEPT !.reply = reply, !.pc = "save"]
                       ELSE ProcExit([@ EXCEPT !.reply = reply], 0)]
    /\ UNCHANGED user_config
    /\ InterleavedFrame

\* save_user_config, lines 192-198: read the existing file
ProcSaveRead(p) ==
    /\ procs[p].pc = "save"
    /\ procs' = [procs EXCEPT ![p] = [@ EXCEPT !.pc = "write",
                                               !.existing = user_config]]
    /\ UNCHANGED user_config
    /\ InterleavedFrame

\* the config an invocation writes, from what it read and what it was told:
\* save_user_config(api_key, site_uuid) at line 886,
\* save_user_config(config["api_key"], config.get("site_uuid"), email,
\* company) at lines 345-346
ProcWritten(q, existing) ==
    IF q.cmd = "use-site"
    THEN SaveUserConfig(existing, q.config.api_key, q.uuid, None, None)
    ELSE SaveUserConfig(existing, q.config.api_key, q.config.site_uuid,
                        q.reply.owner_email, q.reply.company_name)

\* save_user_config, lines 200-211: build the config and write it
ProcSaveWrite(p) ==
    /\ procs[p].pc = "write"
    /\ user_config' = ProcWritten(procs[p], procs[p].existing)
    /\ procs' = [procs EXCEPT ![p] = ProcExit(@, 0)]
    /\ InterleavedFrame

InitInterleaved ==
    /\ pc = "idle"
    /\ exit_code = -1
    /\ exit_reason = "none"
    /\ user_config \in {NoConfig, OldConfig}
    /\ pending = NoPending
    /\ now = 0
    /\ start_time = 0
    /\ elapsed = 0
    /\ wait_time = 0
    /\ resp = NoReply
    /\ n_status = 0
    /\ n_sleeps = 0
    /\ n_fetch = 0
    /\ pre_sleep = 0
    /\ slept = 0
    /\ req_at = 0
    /\ req_dur = 0
    /\ req_check = 0
    /\ req_sleep = 0
    /\ all_pending = TRUE
    /\ reqs = <<>>
    /\ sresp = NoSignupReply
    /\ checks = <<>>
    /\ prev_end = "none"
    /\ config_at_start = user_config
    /\ had_pending = pending.exists
    /\ reported = FALSE
    /\ writes = {}
    /\ last_net = "none"
    /\ cmd = "none"
    /\ args = NoArgs
    /\ n_inv = 0
    /\ ws_config = NoWorkspaceConfig
    /\ http_status = 0
    /\ cs_site_uuid = None
    /\ cs_both_ok = FALSE
    /\ ct_left = 0
    /\ all_personas = 0
    /\ p_left = 0
    /\ InitApi
    /\ \E c1 \in WriterCommands, c2 \in WriterCommands :
          \E u1 \in (IF c1 = "use-site" THEN {"s1", "s2"} ELSE {None}),
             u2 \in (IF c2 = "use-site" THEN {"s1", "s2"} ELSE {None}) :
             procs = [p \in Procs |-> IF p = "p1" THEN NewProc(c1, u1)
                                      ELSE NewProc(c2, u2)]

NextInterleaved ==
    \/ \E p \in Procs : ProcLoad(p)
    \/ \E p \in Procs : ProcRequest(p)
    \/ \E p \in Procs : ProcSaveRead(p)
    \/ \E p \in Procs : ProcSaveWrite(p)

SpecInterleaved == InitInterleaved /\ [][NextInterleaved]_vars

\* the config after the invocation q has run alone on cfg, with the reply it
\* got: cmd_use_site (lines 869-886), cmd_account (lines 329-346)
RunAlone(cfg, q) ==
    IF ConfigMissing(cfg) THEN cfg
    ELSE IF q.reply.net # "http" THEN cfg
    ELSE IF ~ProcSaves(q, q.reply) THEN cfg
    ELSE ProcWritten([q EXCEPT !.config = cfg], cfg)


(***************************************************************************)
(* Properties of cmd_analyze                                               *)
(***************************************************************************)
\* the last status reply, as the server sent it
Completed(r) == r.net = "http" /\ r.code = HTTP_OK /\ r.status = "completed"
Failed(r) == r.net = "http" /\ r.code = HTTP_OK /\ r.status = "failed"
Is2xx(c) == c >= 200 /\ c <= 299

\* the poll loop has been entered and left
LoopEnded == n_status >= 1 /\ pc \in {"fetch", "exited"}

\* min(2^(k-1), 30); 2^30 is already far above the cap
BackoffWait(k) == IF k - 1 > 30 THEN max_wait ELSE Min(2 ^ (k - 1), max_wait)

\* C1: polling stops on the attempt that observes `completed`: the loop is
\* left on that attempt, no status request and no sleep follows it, and the
\* command takes neither the timeout nor the failure exit.
C1_CompletedStopsPolling ==
    /\ [](Completed(resp) =>
            /\ pc \in {"fetch", "exited"}
            /\ exit_reason \notin {"timeout", "failed"})
    /\ [][Completed(resp) => /\ n_status' = n_status
                             /\ n_sleeps' = n_sleeps]_vars

C1_Witness ==
    /\ Completed(resp)
    /\ n_status >= 3
    /\ n_fetch = 4
    /\ exit_code = 0

\* C2: a 200 reply with status `failed` ends the command on that attempt with
\* exit code 1, whatever budget remains: no sleep, no status request and no
\* result fetch follows.
C2_FailedExitsAtOnce ==
    /\ [](Failed(resp) =>
            /\ pc = "exited"
            /\ exit_code = 1
            /\ exit_reason = "failed"
            /\ n_fetch = 0)
    /\ [][Failed(resp) => /\ n_status' = n_status
                          /\ n_sleeps' = n_sleeps
                          /\ n_fetch' = n_fetch]_vars

C2_Witness ==
    /\ Failed(resp)
    /\ n_status = 2
    /\ req_at < 10
    /\ exit_code = 1

\* C3 (as stated): a run that ends by timeout does so at an elapsed time t
\* with TIMEOUT <= t <= TIMEOUT + one polling interval (at most 30 s).
C3_TimeoutWithinOneInterval ==
    exit_reason = "timeout" =>
        /\ exit_code = 1
        /\ elapsed >= ANALYSIS_POLL_TIMEOUT
        /\ elapsed <= ANALYSIS_POLL_TIMEOUT + max_wait

\* C3 (amended): a run whose replies never are `completed` or `failed` and
\* whose requests all return leaves the loop only by the timeout exit, with
\* code 1, at an elapsed time t with TIMEOUT <= t, and t less than TIMEOUT
\* plus the time the last iteration took: its sleep (one polling interval,
\* at most 30 s asked for) and its status request.
C3_TimeoutWithinLastIteration ==
    /\ exit_reason = "timeout" =>
          /\ exit_code = 1
          /\ pc = "exited"
          /\ elapsed >= ANALYSIS_POLL_TIMEOUT
          /\ elapsed - (slept + req_dur) < ANALYSIS_POLL_TIMEOUT
          /\ pre_sleep <= max_wait
    /\ (LoopEnded /\ resp.net = "http" /\ ~Completed(resp) /\ ~Failed(resp)) =>
          exit_reason = "timeout"

C3_Witness ==
    /\ exit_reason = "timeout"
    /\ elapsed > ANALYSIS_POLL_TIMEOUT + max_wait
    /\ n_status >= 20

\* C4 (as stated): the sleep right before the k-th status request is
\* min(2^(k-1), 30) seconds, for every k >= 1.
C4_WaitBeforeKthRequest ==
    n_status >= 1 => req_sleep = BackoffWait(n_status)

\* C4 (amended): the k-th sleep of the loop is min(2^(k-1), 30) seconds.  It
\* comes right before the k-th status request when the first iteration read
\* a positive elapsed time; when it read 0 there is no sleep before the
\* first request and the sleep before the k-th (k >= 2) is min(2^(k-2), 30).
C4_KthSleep ==
    /\ pre_sleep > 0 => pre_sleep = BackoffWait(n_sleeps)
    /\ (n_status >= 1 /\ pc # "poll_request") =>
          /\ n_sleeps \in {n_status, n_status - 1}
          /\ req_sleep = IF n_sleeps = n_status THEN BackoffWait(n_status)
                         ELSE IF n_status = 1 THEN 0
                         ELSE BackoffWait(n_status - 1)

C4_Witness ==
    /\ n_status = 8
    /\ pc = "poll_top"
    /\ n_sleeps = 7
    /\ req_sleep = max_wait

\* C5: a status reply with a non-2xx HTTP status never ends the loop and
\* never takes the `failed` exit, whatever its body says: the loop goes on,
\* and only the timeout test can end the run.
C5_Non2xxContinues ==
    (resp.net = "http" /\ ~Is2xx(resp.code)) =>
        /\ pc \in {"poll_top", "poll_sleep", "poll_request", "exited"}
        /\ pc = "exited" => exit_reason = "timeout"
        /\ n_fetch = 0

C5_Witness ==
    /\ resp.net = "http"
    /\ ~Is2xx(resp.code)
    /\ resp.status = "failed"
    /\ n_status >= 3
    /\ pc = "poll_sleep"

\* C6 (as stated): once the loop is entered only a `completed` status, a
\* `failed` status or the timeout ends it; a connection-level failure of one
\* status request does not.
C6_OnlyThreeExits ==
    LoopEnded =>
        \/ Completed(resp) /\ exit_reason \notin {"failed", "timeout"}
        \/ Failed(resp) /\ exit_reason = "failed"
        \/ exit_reason = "timeout"

\* C6 (amended): the loop is ended by a `completed` status, a `failed`
\* status, the timeout, or a status request that does not return: on a
\* connection-level failure api_call exits the process with code 1.
C6_ThreeExitsOrConnectionError ==
    LoopEnded =>
        \/ Completed(resp) /\ exit_reason \notin {"failed", "timeout"}
        \/ Failed(resp) /\ exit_reason = "failed"
        \/ exit_reason = "timeout" /\ resp.net = "http"
        \/ ConnectionFailed(resp) /\ exit_reason = "conn_error" /\ exit_code = 1

C6_Witness ==
    /\ LoopEnded
    /\ ConnectionFailed(resp)
    /\ n_status >= 2
    /\ exit_reason = "conn_error"

\* C7 (as stated): every status request is issued at an elapsed time
\* strictly below the timeout.
C7_NoRequestAfterTimeout ==
    n_status >= 1 => req_at < ANALYSIS_POLL_TIMEOUT

\* C7 (amended): every status request is issued in an iteration whose
\* timeout test read an elapsed time strictly below the timeout; the request
\* goes out after that iteration's sleep (at most 30 s asked for), so it can
\* be issued at an elapsed time at or above the timeout.
C7_RequestAfterPassedCheck ==
    n_status >= 1 =>
        /\ req_check < ANALYSIS_POLL_TIMEOUT
        /\ req_sleep <= max_wait
        /\ req_at >= req_check + req_sleep
        /\ req_at <= req_check + req_sleep + MaxOversleep

C7_Witness ==
    /\ n_status >= 1
    /\ req_at >= ANALYSIS_POLL_TIMEOUT
    /\ req_check < ANALYSIS_POLL_TIMEOUT

\* C8: two consecutive status requests are separated by a sleep of at least
\* the polling interval in force, never less than 1 second; a retry after a
\* non-200 reply is never sent back-to-back.
C8_SleepBetweenRequests ==
    /\ []((pc = "poll_request" /\ n_status >= 1) =>
            /\ pre_sleep >= InitialWait
            /\ slept >= pre_sleep)
    /\ [](n_status >= 2 =>
            /\ req_sleep >= InitialWait
            /\ req_at - req_check >= req_sleep)
    /\ [][pc = "poll_sleep" => /\ pre_sleep' = wait_time
                               /\ slept' >= wait_time]_vars

C8_Witness ==
    /\ pc = "poll_request"
    /\ n_status = 3
    /\ resp.net = "http"
    /\ resp.code # HTTP_OK
    /\ pre_sleep >= InitialWait

(***************************************************************************)
(* Properties of the signup flow                                           *)
(***************************************************************************)
\* C9: whatever non-2xx and `pending` checks came before (each leaves the
\* pending signup and the user config as they were), the status check that
\* returns `completed` with api_key K makes the client persist api_key = K
\* in the user config and exit 0.
C9_CompletedPersistsKey ==
    /\ (pc = "exited" /\ sresp.net = "http" /\ sresp.code = HTTP_OK
           /\ sresp.status = "completed" /\ Truthy(sresp.api_key)) =>
          /\ exit_code = 0
          /\ user_config.exists
          /\ user_config.api_key = sresp.api_key
    /\ (pc = "exited" /\ sresp.net = "http"
           /\ (~Is2xx(sresp.code) \/ (sresp.code = HTTP_OK /\ sresp.status = "pending"))) =>
          /\ pending.exists
          /\ user_config = config_at_start

C9_Witness ==
    /\ checks = <<"non2xx", "non2xx", "non2xx", "pending", "completed">>
    /\ sresp.api_key = "k2"
    /\ user_config.api_key = "k2"
    /\ config_at_start.api_key = "k0"
    /\ exit_code = 0

\* C10: a 200 reply with status `expired` ends the signup on that check:
\* exit code 1, user config untouched, pending record removed; the next
\* `signup` invocation then starts a new signup with POST /signup and makes
\* no status check.
C10_ExpiredEndsSignup ==
    /\ (sresp.net = "http" /\ sresp.code = HTTP_OK /\ sresp.status = "expired") =>
          /\ pc = "exited"
          /\ exit_code = 1
          /\ user_config = config_at_start
          /\ ~pending.exists
    /\ prev_end = "expired" =>
          /\ pc \in {"signup_new", "exited"}
          /\ pc = "exited" => reqs = <<"POST /signup">>
          /\ pc = "signup_new" => reqs = <<>>

C10_Witness ==
    /\ prev_end = "expired"
    /\ pc = "exited"
    /\ exit_reason = "signup_started"
    /\ pending.exists

\* C11: a save_user_config call keeps, for each of site_uuid, contact_email
\* and company_name that it is passed as None, the value the file held
\* before; stated for the save made when a signup completes, which passes
\* site_uuid = None.
C11_SavePreservesUnsupplied ==
    (pc = "exited" /\ exit_reason = "signup_complete") =>
        /\ user_config.site_uuid = config_at_start.site_uuid
        /\ sresp.contact_email = None =>
              user_config.contact_email = config_at_start.contact_email
        /\ sresp.company_name = None =>
              user_config.company_name = config_at_start.company_name

\* C19 (as stated): with every status reply pending, the run that ends by
\* timeout has issued about 120 status polls, one per 5-second interval.
C19_About120Polls ==
    (exit_reason = "timeout" /\ all_pending) =>
        (n_status >= 100 /\ n_status <= 140)

\* C19 (amended): no run issues more than 25 status polls, and with every
\* status reply pending the run ends with code 1 at the timeout exit, at
\* 600 s or later:
\* the waits between polls are 1, 2, 4, 8, 16 and then 30 seconds, and the
\* polls issued are enough to fill the 600 s with those waits and the time
\* the requests took.
C19_AtMost25Polls ==
    /\ n_status <= 25
    /\ (exit_reason = "timeout" /\ all_pending) =>
          /\ exit_code = 1
          /\ elapsed >= ANALYSIS_POLL_TIMEOUT
          /\ n_status > 5
          /\ MaxClockStep + 31 + max_wait * (n_status - 5)
                + n_status * (MaxOversleep + MaxReqDur) >= ANALYSIS_POLL_TIMEOUT

C19_Witness ==
    /\ exit_reason = "timeout"
    /\ all_pending
    /\ n_status = 25

\* C20: the first status request is issued right after the analysis is
\* started, with no sleep before it; sleeps only come before the second and
\* later status requests.
C20_FirstRequestImmediate ==
    /\ (pc = "poll_request" /\ n_status = 0) => n_sleeps = 0
    /\ n_status = 1 => req_sleep = 0

(***************************************************************************)
(* Properties of the command line                                          *)
(***************************************************************************)
\* C12 (as stated): the user config file is written only by a signup that
\* completes, by use-site and by create-site; a use-site whose site lookup
\* returns a status other than 200 leaves it as it was.
C12_OnlySignupAndSiteSwitchWrite ==
    /\ "user_config" \in writes => cmd \in {"signup", "use-site", "create-site"}
    /\ (cmd = "use-site" /\ last_net = "http" /\ http_status # HTTP_OK) =>
          (user_config = config_at_start /\ "user_config" \notin writes)

\* C12 (amended): the user config file changes only through a write of the
\* running invocation, and it is written only by a signup that completes,
\* by a use-site whose lookup returned 200, by a create-site that reached
\* its save step, and by an account whose GET /account returned 200 with an
\* email or a company name; a use-site whose lookup returns another status
\* leaves it as it was.
C12_WritersOfUserConfig ==
    /\ user_config # config_at_start => "user_config" \in writes
    /\ "user_config" \in writes =>
          \/ cmd = "signup" /\ exit_reason = "signup_complete"
          \/ cmd = "use-site" /\ exit_code = 0 /\ http_status = HTTP_OK
          \/ cmd = "create-site" /\ pc \in {"cs_usage", "exited"}
          \/ cmd = "account" /\ exit_code = 0 /\ http_status = HTTP_OK
    /\ (cmd = "use-site" /\ last_net = "http" /\ http_status # HTTP_OK) =>
          (user_config = config_at_start /\ "user_config" \notin writes)

C12_Witness ==
    /\ cmd = "account"
    /\ pc = "exited"
    /\ n_inv = 2
    /\ "user_config" \in writes
    /\ user_config # config_at_start

\* C13: an invocation that reported a failure "(HTTP <status>)" for a request
\* exits with code 1; one that exits with code 0 reported none.
C13_ReportedFailureExitsOne ==
    (pc = "exited" /\ reported) => exit_code = 1

\* C14: create-site with types outside 1..3, personas outside 1..3 or
\* questions outside 3..10 exits with code 1 with no HTTP request issued
\* and no file written.
C14_CreateSiteRangeChecked ==
    (cmd = "create-site" /\ (\/ args.types \notin 1..3
                             \/ args.personas \notin 1..3
                             \/ args.questions \notin 3..10)) =>
        /\ pc \in {"create-site", "exited"}
        /\ pc = "exited" => exit_code = 1
        /\ reqs = <<>>
        /\ writes = {}
        /\ user_config = config_at_start

C14_Witness ==
    /\ cmd = "create-site"
    /\ pc = "exited"
    /\ exit_reason = "bad_range"
    /\ args.types = 1
    /\ args.personas = 1
    /\ args.questions = 11

\* C15: generate-types, generate-personas and generate-questions with a
\* --count outside the range (1..3, 1..3, 3..10) exit with code 1 with no
\* HTTP request issued.
C15_GenerateCountChecked ==
    (/\ pc = "exited"
     /\ \/ cmd = "generate-types" /\ args.count \notin 1..3
        \/ cmd = "generate-personas" /\ args.count \notin 1..3
        \/ cmd = "generate-questions" /\ args.count \notin 3..10) =>
        (exit_code = 1 /\ reqs = <<>>)

\* C16: with no user config file, or an empty one, every command but
\* signup, status and config-show exits with code 1 (the missing-config
\* exit) with no HTTP request issued and no file written.
C16_NoConfigExitsOne ==
    (/\ cmd \in Commands \ {"signup", "status", "config-show"}
     /\ (~config_at_start.exists \/ config_at_start = EmptyConfig)) =>
        /\ pc \in {Handler(cmd), "exited"}
        /\ pc = "exited" => (exit_code = 1 /\ exit_reason = "no_config")
        /\ reqs = <<>>
        /\ writes = {}
        /\ user_config = config_at_start

C16_Witness ==
    /\ cmd = "update"
    /\ pc = "exited"
    /\ exit_code = 1
    /\ config_at_start = EmptyConfig
    /\ reqs = <<>>

\* C17: a request that fails with URLError ends the process with code 1 in
\* the same step, with no file written by that step; the next request is
\* the first one of a new invocation, which starts from the files as the
\* failed one left them.
C17_ConnectionErrorExits ==
    /\ [](last_net = "url_error" => (pc = "exited" /\ exit_code = 1))
    /\ [][(last_net' = "url_error" /\ reqs' # reqs) =>
             /\ user_config' = user_config
             /\ ws_config' = ws_config
             /\ pending' = pending
             /\ writes' = writes]_vars
    /\ [][pc = "exited" =>
             /\ reqs' = <<>>
             /\ n_inv' = n_inv + 1
             /\ user_config' = user_config
             /\ ws_config' = ws_config
             /\ pending' = pending]_vars

C17_Witness ==
    /\ cmd = "create-site"
    /\ pc = "exited"
    /\ exit_code = 1
    /\ last_net = "url_error"
    /\ Len(reqs) = 3

(***************************************************************************)
(* Properties of api_call                                                  *)
(***************************************************************************)
\* C18: the error data api_call returns for an HTTP error response never
\* contains the API key that was sent with the request, whatever the body
\* of the response.
C18_ErrorDataHidesKey ==
    pc = "returned" => \A i \in 1..Len(error_data) : error_data[i] # sent_key

(***************************************************************************)
(* Termination of cmd_analyze                                              *)
(***************************************************************************)
\* C21: every cmd_analyze run ends; the elapsed time read at the loop top
\* never passes the timeout by more than one sleep and one request, and a
\* run whose status replies are all other than `completed` and `failed`
\* (pending, non-200, unknown or missing status) ends at the timeout exit.
C21_AnalyzeTerminates ==
    /\ <>(pc = "exited")
    /\ [](elapsed < ANALYSIS_POLL_TIMEOUT + max_wait + MaxOversleep + MaxReqDur)
    /\ []((/\ pc = "exited"
           /\ n_status >= 1
           /\ resp.net = "http"
           /\ ~Completed(resp)
           /\ ~Failed(resp)) => (exit_reason = "timeout" /\ exit_code = 1))

C21_Witness ==
    /\ pc = "exited"
    /\ exit_reason = "timeout"
    /\ ~all_pending
    /\ resp.net = "http"
    /\ resp.code = HTTP_OK
    /\ resp.status = None

(***************************************************************************)
(* Properties of the signup flow, continued                                *)
(***************************************************************************)
\* C22: a `signup` invocation issues exactly one request: POST /signup when
\* no pending signup existed at its start, the status GET when one did; it
\* never writes both the pending record and the user config.
C22_OneBranchPerInvocation ==
    /\ pc = "signup_new" => (~had_pending /\ reqs = <<>>)
    /\ pc = "signup_resume" => (had_pending /\ reqs = <<>>)
    /\ pc = "exited" =>
          /\ had_pending <=> reqs = <<"GET /signup/status">>
          /\ ~had_pending <=> reqs = <<"POST /signup">>
          /\ ~({"pending_signup", "user_config"} \subseteq writes)
          /\ "pending_signup" \in writes => ~had_pending
          /\ "user_config" \in writes => had_pending

C22_Witness ==
    /\ pc = "exited"
    /\ prev_end = "signup_started"
    /\ had_pending
    /\ reqs = <<"GET /signup/status">>
    /\ exit_reason = "signup_complete"

\* C23: a signup_resume step removes the pending signup record exactly when
\* the status check answered HTTP 200 with status `completed` and a
\* non-empty api_key, or HTTP 200 with status `expired`; after every other
\* reply the pending record and the user config are as they were and the
\* invocation has exited with code 1.
C23_ResumeDeletesOnlyOnTerminal ==
    [][pc = "signup_resume" =>
          IF /\ sresp'.net = "http"
             /\ sresp'.code = 200
             /\ \/ sresp'.status = "completed" /\ sresp'.api_key \notin {None, ""}
                \/ sresp'.status = "expired"
          THEN /\ pending.exists
               /\ ~pending'.exists
          ELSE /\ pending' = pending
               /\ user_config' = user_config
               /\ pc' = "exited"
               /\ exit_code' = 1]_vars

C23_Witness ==
    /\ pc = "exited"
    /\ reqs = <<"GET /signup/status">>
    /\ sresp.net = "http"
    /\ sresp.code = 200
    /\ sresp.status = "completed"
    /\ sresp.api_key = ""
    /\ pending.exists
    /\ user_config = config_at_start
    /\ exit_code = 1

(***************************************************************************)
(* Properties of create-site's writes                                      *)
(***************************************************************************)
\* C24 as stated: create-site writes the user config and the workspace
\* config if and only if POST /sites and the customer-type generation both
\* returned 200/201 (whatever happens to the persona and question
\* requests), and otherwise exits with code 1 having written nothing.
C24_WritesIffFirstTwoSucceed ==
    (cmd = "create-site" /\ pc = "exited") =>
        /\ ({"user_config", "workspace_config"} \subseteq writes) <=> cs_both_ok
        /\ ~cs_both_ok => (writes = {} /\ exit_code = 1)

\* C24, amended: create-site writes both files exactly when POST /sites and
\* the customer-type generation both returned 200/201 and no persona or
\* question request met a connection error; otherwise it exits with code 1,
\* the user config as it was.  The two files change only in the save step,
\* and a persona or question request that got an HTTP answer, whatever its
\* status, never ends the invocation.
C24_WritesIffCreatedAndConnected ==
    /\ []((cmd = "create-site" /\ pc = "exited") =>
            LET wrote == {"user_config", "workspace_config"} \subseteq writes
                lost == /\ exit_reason = "conn_error"
                        /\ Len(reqs) > 0
                        /\ reqs[Len(reqs)] \in {"POST personas/generate",
                                                "POST questions/generate"}
            IN  /\ wrote <=> (cs_both_ok /\ ~lost)
                /\ ~wrote => /\ writes = {}
                             /\ exit_code = 1
                             /\ user_config = config_at_start)
    /\ [][(cmd = "create-site" /\ pc \notin {"cs_save", "idle", "exited"}) =>
            (user_config' = user_config /\ ws_config' = ws_config)]_vars
    /\ [][(pc \in {"cs_personas", "cs_questions"} /\ last_net' = "http") =>
            pc' # "exited"]_vars

C24_Witness ==
    /\ cmd = "create-site"
    /\ pc = "exited"
    /\ exit_reason = "done"
    /\ cs_both_ok
    /\ reported
    /\ writes = {"user_config", "workspace_config"}
    /\ user_config.site_uuid = cs_site_uuid
    /\ ws_config.exists

(***************************************************************************)
(* Properties of invocations that run at the same time                     *)
(***************************************************************************)
\* C25: once two interleaved invocations out of use-site and account have
\* both ended, the user config is what running the two one after the
\* other, in one of the two orders and with the same replies, leaves; and a
\* use-site that switched the site next to an `account` leaves its site
\* uuid in the config.
C25_InterleavingSerializable ==
    (\A p \in Procs : procs[p].pc = "done") =>
        /\ user_config \in
              {RunAlone(RunAlone(config_at_start, procs["p1"]), procs["p2"]),
               RunAlone(RunAlone(config_at_start, procs["p2"]), procs["p1"])}
        /\ \A p \in Procs, o \in Procs :
              (/\ procs[p].cmd = "use-site"
               /\ procs[p].exit_code = 0
               /\ procs[o].cmd = "account") =>
                  user_config.site_uuid = procs[p].uuid

====
